---- MODULE Spec2Model ----
(***************************************************************************)
(* Company-directory search service: the ingestion pipeline                *)
(* (data-pipeline/ingest_data.py) and the REST handlers (backend/main.py)  *)
(* over one Elasticsearch "companies" index.                               *)
(*                                                                         *)
(* A request is received (pc = "received", the request in `request`) and   *)
(* then handled in one step by its handler (pc = "done", the outcome in    *)
(* `response`); the handlers are `async def` bodies without an await, so   *)
(* one worker runs each of them to completion. SpecTags has several        *)
(* server processes, whose engine calls interleave; SpecStartup is the     *)
(* startup hook on its own.                                                *)
(***************************************************************************)
EXTENDS Integers, Sequences, FiniteSets, TLC

VARIABLES
    companies,   \* the "companies" index: document id -> stored _source
    clock,       \* datetime.now(), as a counter
    pc,          \* "received": a request is waiting; "done": it was answered
    request,     \* the request being handled (op, arguments, engine health)
    query_body,  \* the query body search_companies last sent to the engine
    response,    \* the outcome of the last handled request
    repeats,     \* how many times in a row the request was sent before
    tags_index,  \* the "tags" index: document id -> stored _source
    inflight,    \* per server process: the tag request it is in the middle of
    startup      \* create_index, the startup hook: position and counters

vars == <<companies, clock, pc, request, query_body, response, repeats,
          tags_index, inflight, startup>>

----------------------------------------------------------------------------
(* Python values *)

\* Optional[T]: None is the empty tuple, a present value v is <<v>>.
None == <<>>
Some(v) == <<v>>
Val(o) == o[1]

\* Python truthiness of Optional[str], Optional[List[str]] and Optional[int].
TruthyStr(o) == o # None /\ Val(o) # ""
TruthyList(o) == o # None /\ Len(Val(o)) > 0
TruthyInt(o) == o # None /\ Val(o) # 0

\* x in list
In(x, list) == \E i \in 1..Len(list) : list[i] = x

\* list.count(x)
Count(x, list) == Cardinality({i \in 1..Len(list) : list[i] = x})

\* [t for t in list if t != x]
RECURSIVE Without(_, _)
Without(list, x) ==
    IF list = <<>> THEN <<>>
    ELSE IF Head(list) = x THEN Without(Tail(list), x)
    ELSE <<Head(list)>> \o Without(Tail(list), x)

----------------------------------------------------------------------------
(* Bounds *)

\* Largest employee count of an ingested row.
MaxCount == 10002
\* Longest size_range list of a search request.
MaxBuckets == 2
\* Largest page number and page size of a search request.
MaxPage == 2
MaxSize == 3
\* The clock value from which no further request is received.
MaxClock == 3
\* Largest count kept of the times a request was repeated.
MaxRepeats == 2

----------------------------------------------------------------------------
(* Size Categorizer: data-pipeline/ingest_data.py *)

categorize_company_size_OffByOne(employee_count) ==
    IF employee_count = None THEN "Unknown"
    ELSE IF Val(employee_count) > 10001 THEN "Large (10001+)"
    ELSE IF Val(employee_count) > 1000 THEN "Medium (1000-10000)"
    ELSE "Small (<1000)"

\* pd.isna(x) or x is None: both are None here (ingest_data turns NaN into
\* None before it calls the categorizer).
categorize_company_size(employee_count) ==
    IF employee_count = None THEN "Unknown"
    ELSE IF Val(employee_count) >= 10001 THEN "Large (10001+)"
    ELSE IF Val(employee_count) >= 1000 THEN "Medium (1000-10000)"
    ELSE "Small (<1000)"

\* The document ingest_data builds from one CSV row at time `now`.
IngestDoc(row, now) ==
    [name |-> row.name,
     domain |-> row.domain,
     year_founded |-> row.year_founded,
     industry |-> row.industry,
     size_range |-> row.size_range,
     locality |-> row.locality,
     country |-> row.country,
     linkedin_url |-> row.linkedin_url,
     current_employee_estimate |-> row.current_employee_estimate,
     total_employee_estimate |-> row.total_employee_estimate,
     size_category |-> Some(categorize_company_size(row.current_employee_estimate)),
     tags |-> <<>>,
     created_at |-> now,
     updated_at |-> now]

\* "_id": str(idx + 1), the row number.
RowId(i) == CASE i = 1 -> "1" [] i = 2 -> "2" [] i = 3 -> "3" [] OTHER -> "4"

\* The index after the bulk insert of `rows` (one batch: fewer than 100 rows).
BulkDocs(rows, now) ==
    [id \in {RowId(i) : i \in 1..Len(rows)} |->
        IngestDoc(rows[CHOOSE i \in 1..Len(rows) : RowId(i) = id], now)]

----------------------------------------------------------------------------
(* Query Builder: search_companies, backend/main.py *)

\* {"multi_match": {...}}: the boosts are name^3 and ^2 for the other fields.
MultiMatchClause(text) ==
    [kind |-> "multi_match",
     query |-> text,
     fields |-> <<[field |-> "name", boost |-> 3],
                  [field |-> "domain", boost |-> 2],
                  [field |-> "industry", boost |-> 2],
                  [field |-> "locality", boost |-> 2],
                  [field |-> "country", boost |-> 2]>>,
     fuzziness |-> "AUTO",
     type |-> "best_fields"]

\* {"terms": {field: values}}
TermsClause(field, values) ==
    [kind |-> "terms", field |-> field, values |-> values]

\* {"range": {field: {"gte": .., "lte": .., "lt": ..}}}, absent keys are None.
RangeClause(field, gte, lte, lt) ==
    [kind |-> "range", field |-> field, gte |-> gte, lte |-> lte, lt |-> lt]

SizeRangeOf_OffByOne(size_cat) ==
    IF size_cat = "Large (10001+)"
    THEN <<RangeClause("current_employee_estimate", Some(10001), None, None)>>
    ELSE IF size_cat = "Medium (1000-10000)"
    THEN <<RangeClause("current_employee_estimate", Some(1000), Some(10000), None)>>
    ELSE IF size_cat = "Small (<1000)"
    THEN <<RangeClause("current_employee_estimate", None, Some(1000), None)>>
    ELSE <<>>

\* One pass of the loop over search_request.size_range: what it appends to
\* size_filters for one bucket name (nothing for a name it does not know).
SizeRangeOf(size_cat) ==
    IF size_cat = "Large (10001+)"
    THEN <<RangeClause("current_employee_estimate", Some(10001), None, None)>>
    ELSE IF size_cat = "Medium (1000-10000)"
    THEN <<RangeClause("current_employee_estimate", Some(1000), Some(10000), None)>>
    ELSE IF size_cat = "Small (<1000)"
    THEN <<RangeClause("current_employee_estimate", None, None, Some(1000))>>
    ELSE <<>>

RECURSIVE size_filters(_)
size_filters(size_range) ==
    IF size_range = <<>> THEN <<>>
    ELSE SizeRangeOf(Head(size_range)) \o size_filters(Tail(size_range))

MustClauses_NotNoneCheck(search_request) ==
    IF search_request.query # None
    THEN <<MultiMatchClause(Val(search_request.query))>>
    ELSE <<>>

\* if search_request.query: must.append(multi_match)
MustClauses(search_request) ==
    IF TruthyStr(search_request.query)
    THEN <<MultiMatchClause(Val(search_request.query))>>
    ELSE <<>>

FacetFilter_DropsEmptyCheck(field, values) ==
    IF values # None THEN <<TermsClause(field, Val(values))>> ELSE <<>>

\* if search_request.<facet>: filter.append({"terms": {field: <facet>}})
FacetFilter(field, values) ==
    IF TruthyList(values) THEN <<TermsClause(field, Val(values))>> ELSE <<>>

\* if search_request.size_range: ... if size_filters: filter.append(should)
SizeFilter(search_request) ==
    IF TruthyList(search_request.size_range)
    THEN LET filters == size_filters(Val(search_request.size_range))
         IN  IF filters # <<>>
             THEN <<[kind |-> "bool", should |-> filters]>>
             ELSE <<>>
    ELSE <<>>

\* if year_founded_from or year_founded_to: one range with the truthy bounds
YearFilter(search_request) ==
    IF TruthyInt(search_request.year_founded_from)
       \/ TruthyInt(search_request.year_founded_to)
    THEN <<RangeClause("year_founded",
               IF TruthyInt(search_request.year_founded_from)
               THEN search_request.year_founded_from ELSE None,
               IF TruthyInt(search_request.year_founded_to)
               THEN search_request.year_founded_to ELSE None,
               None)>>
    ELSE <<>>

SortOf_NameDescending(sort_by) ==
    IF sort_by = "name" THEN <<[field |-> "name.keyword", order |-> "desc"]>>
    ELSE IF sort_by = "size"
    THEN <<[field |-> "current_employee_estimate", order |-> "desc"]>>
    ELSE <<[field |-> "_score", order |-> "default"]>>

\* query_body["sort"]; the bare "_score" carries no order of its own.
SortOf(sort_by) ==
    IF sort_by = "name" THEN <<[field |-> "name.keyword", order |-> "asc"]>>
    ELSE IF sort_by = "size"
    THEN <<[field |-> "current_employee_estimate", order |-> "desc"]>>
    ELSE <<[field |-> "_score", order |-> "default"]>>

\* The filters in the order search_companies appends them.
FilterClauses(search_request) ==
    FacetFilter("industry.keyword", search_request.industry)
    \o SizeFilter(search_request)
    \o FacetFilter("country.keyword", search_request.country)
    \o FacetFilter("locality.keyword", search_request.locality)
    \o YearFilter(search_request)
    \o FacetFilter("tags", search_request.tags)

BuildQuery(search_request) ==
    [must |-> MustClauses(search_request),
     filter |-> FilterClauses(search_request),
     from |-> (search_request.page - 1) * search_request.size,
     size |-> search_request.size,
     sort |-> SortOf(search_request.sort_by)]

----------------------------------------------------------------------------
(* The engine: what Elasticsearch answers to es_client.search *)

\* The values a terms clause compares: the keyword of a text field, or the
\* elements of the tags array.
KeywordValues(source, field) ==
    CASE field = "industry.keyword" -> {source.industry}
      [] field = "country.keyword" -> {source.country}
      [] field = "locality.keyword" -> {source.locality}
      [] field = "tags" -> {source.tags[i] : i \in 1..Len(source.tags)}
      [] OTHER -> {}

NumericValue(source, field) ==
    CASE field = "current_employee_estimate" -> source.current_employee_estimate
      [] field = "year_founded" -> source.year_founded
      [] OTHER -> None

\* A range clause matches a document that has the field and meets every
\* bound given; a document without the field matches no range.
RangeMatches(clause, source) ==
    LET v == NumericValue(source, clause.field)
    IN  /\ v # None
        /\ clause.gte # None => Val(v) >= Val(clause.gte)
        /\ clause.lte # None => Val(v) <= Val(clause.lte)
        /\ clause.lt # None => Val(v) < Val(clause.lt)

\* The score of a multi_match of type best_fields: the best boost among the
\* fields that carry the text (0: no field does). Field values are single
\* terms here, and fuzziness is left to the engine.
TextScore(clause, source) ==
    LET hit == {i \in 1..Len(clause.fields) :
                   source[clause.fields[i].field] = clause.query}
        boosts == {clause.fields[i].boost : i \in hit}
    IN  IF boosts = {} THEN 0
        ELSE CHOOSE b \in boosts : \A c \in boosts : c <= b

\* A bool query with only should clauses needs one of them to match.
ClauseMatches(clause, source) ==
    CASE clause.kind = "terms" ->
            \E i \in 1..Len(clause.values) :
                clause.values[i] \in KeywordValues(source, clause.field)
      [] clause.kind = "range" -> RangeMatches(clause, source)
      [] clause.kind = "bool" ->
            \E i \in 1..Len(clause.should) : RangeMatches(clause.should[i], source)
      [] clause.kind = "multi_match" -> TextScore(clause, source) > 0
      [] OTHER -> FALSE

\* bool: every must clause and every filter clause matches.
QueryMatches(body, source) ==
    /\ \A i \in 1..Len(body.must) : ClauseMatches(body.must[i], source)
    /\ \A i \in 1..Len(body.filter) : ClauseMatches(body.filter[i], source)

\* The order documents were indexed in, which breaks ties of a sort.
IndexOrder == <<"1", "2", "3", "4", "a1", "a2", "a3">>
IndexPos(id) == CHOOSE i \in 1..Len(IndexOrder) : IndexOrder[i] = id

\* The lexicographic order of the company names of the model.
NameOrder == <<"acme", "globex", "initech", "umbrella">>
NameRank(name) == CHOOSE i \in 1..Len(NameOrder) : NameOrder[i] = name

\* The key a hit is sorted by, smaller first. A sort without an order is
\* descending on _score and ascending on a field; a document without the
\* field comes last.
SortKey(body, source) ==
    LET s == body.sort[1]
        descending == IF s.order = "default" THEN s.field = "_score"
                      ELSE s.order = "desc"
        missing == /\ s.field = "current_employee_estimate"
                   /\ source.current_employee_estimate = None
        value == CASE s.field = "name.keyword" -> NameRank(source.name)
                   [] s.field = "current_employee_estimate" ->
                        Val(source.current_employee_estimate)
                   [] OTHER -> IF body.must = <<>> THEN 0
                               ELSE TextScore(body.must[1], source)
    IN  IF missing THEN 1000000000
        ELSE IF descending THEN 0 - value ELSE value

\* es_client.search(index="companies", body=query_body): the exact total and
\* the page [from, from + size) of the sorted hits.
EsSearch(index, body) ==
    LET matched == {id \in DOMAIN index : QueryMatches(body, index[id])}
        Before(a, b) ==
            \/ SortKey(body, index[a]) < SortKey(body, index[b])
            \/ /\ SortKey(body, index[a]) = SortKey(body, index[b])
               /\ IndexPos(a) < IndexPos(b)
        place(a) == 1 + Cardinality({b \in matched : Before(b, a)})
        n == Cardinality(matched)
        sorted == [i \in 1..n |-> CHOOSE a \in matched : place(a) = i]
        last == IF body.from + body.size < n THEN body.from + body.size ELSE n
    IN  [total |-> n,
         hits |-> [i \in 1..(IF last > body.from THEN last - body.from ELSE 0) |->
                     [_id |-> sorted[body.from + i],
                      _source |-> index[sorted[body.from + i]]]]]

----------------------------------------------------------------------------
(* Result Mapper and the search handler: search_companies, backend/main.py *)

\* Company(**company_data) raises unless the int fields hold a value
\* (size_category, created_at and updated_at are not Company fields and are
\* dropped).
SchemaOk(source) ==
    /\ source.current_employee_estimate # None
    /\ source.total_employee_estimate # None

ToCompany(id, source) ==
    [id |-> id,
     name |-> source.name,
     domain |-> source.domain,
     year_founded |-> source.year_founded,
     industry |-> source.industry,
     size_range |-> source.size_range,
     locality |-> source.locality,
     country |-> source.country,
     linkedin_url |-> source.linkedin_url,
     current_employee_estimate |-> source.current_employee_estimate,
     total_employee_estimate |-> source.total_employee_estimate,
     tags |-> source.tags]

TotalPages_RoundsDown(total, size) == total \div size

\* total_pages = (total + size - 1) // size
TotalPages(total, size) == (total + size - 1) \div size

\* The response of search_companies to `search_request`, the engine holding
\* `index`; es_ok: the engine call does not raise.
SearchResponse_SkipsBadHits(index, search_request, es_ok) ==
    LET es == EsSearch(index, BuildQuery(search_request))
        good == SelectSeq(es.hits, LAMBDA hit : SchemaOk(hit._source))
    IN  IF ~es_ok \/ search_request.size = 0
        THEN [status |-> 500, detail |-> "Search failed",
              error |-> IF ~es_ok THEN "ConnectionError"
                        ELSE "ZeroDivisionError"]
        ELSE [status |-> 200,
              companies |-> [i \in 1..Len(good) |->
                                ToCompany(good[i]._id, good[i]._source)],
              total |-> es.total,
              page |-> search_request.page,
              size |-> search_request.size,
              total_pages |-> TotalPages(es.total, search_request.size)]

\* The try block of search_companies: the engine call, the mapping of every
\* hit to Company, the page count. The first exception of the three is
\* answered 500 with detail "Search failed: " and str(e), here `error`.
SearchResponse(index, search_request, es_ok) ==
    LET es == EsSearch(index, BuildQuery(search_request))
    IN  IF \/ ~es_ok
           \/ \E i \in 1..Len(es.hits) : ~SchemaOk(es.hits[i]._source)
           \/ search_request.size = 0
        THEN [status |-> 500, detail |-> "Search failed",
              error |-> IF ~es_ok THEN "ConnectionError"
                        ELSE IF search_request.size = 0
                        THEN "ZeroDivisionError"
                        ELSE "ValidationError"]
        ELSE [status |-> 200,
              companies |-> [i \in 1..Len(es.hits) |->
                                ToCompany(es.hits[i]._id, es.hits[i]._source)],
              total |-> es.total,
              page |-> search_request.page,
              size |-> search_request.size,
              total_pages |-> TotalPages(es.total, search_request.size)]

SearchCompanies ==
    /\ pc = "received"
    /\ request.op = "search"
    /\ query_body' = BuildQuery(request.search_request)
    /\ response' = SearchResponse(companies, request.search_request, request.es_ok)
    /\ pc' = "done"
    /\ UNCHANGED <<companies, clock, request, repeats,
                   tags_index, inflight, startup>>

----------------------------------------------------------------------------
(* The startup hook: create_index, backend/main.py *)

max_retries == 30

\* `while retry_count < max_retries`
LoopContinues_OneMore(retry_count) == retry_count <= max_retries
LoopContinues(retry_count) == retry_count < max_retries

\* `if retry_count >= max_retries: ... return`
GaveUp(retry_count) == retry_count >= max_retries

\* What es_client.ping() does: it answers True or False, or it raises.
PingOutcomes == {"true", "false", "raises"}

\* What the try block around indices.exists / indices.create runs into.
IndexOutcomes == {"exists", "created", "exists_raises", "create_raises"}

\* The hook before its first statement; the index may be there already.
StartupBegin(index_exists) ==
    [pc |-> "ping", retry_count |-> 0, pings |-> 0, last_ping |-> "none",
     index_exists |-> index_exists, checked |-> FALSE, created |-> FALSE,
     warned |-> FALSE]

\* The hook after it has returned with the index in place.
StartupDone ==
    [pc |-> "done", retry_count |-> 0, pings |-> 1, last_ping |-> "true",
     index_exists |-> TRUE, checked |-> TRUE, created |-> TRUE,
     warned |-> FALSE]

\* No tag request is in the middle of being handled.
NoWorkers == <<>>

\* One round of the loop: a ping that answers True leaves the loop, any other
\* outcome counts one retry and sleeps.
StartupPing ==
    /\ startup.pc = "ping"
    /\ LoopContinues(startup.retry_count)
    /\ \E outcome \in PingOutcomes :
          startup' = [startup EXCEPT
              !.pings = @ + 1,
              !.last_ping = outcome,
              !.retry_count = IF outcome = "true" THEN @ ELSE @ + 1,
              !.pc = IF outcome = "true" THEN "waited" ELSE "ping"]
    /\ UNCHANGED <<companies, clock, pc, request, query_body, response,
                   repeats, tags_index, inflight>>

\* The loop condition fails: the loop is left without a successful ping.
StartupLoopExit ==
    /\ startup.pc = "ping"
    /\ ~LoopContinues(startup.retry_count)
    /\ startup' = [startup EXCEPT !.pc = "waited"]
    /\ UNCHANGED <<companies, clock, pc, request, query_body, response,
                   repeats, tags_index, inflight>>

\* The check after the loop: warn and return without touching the index.
StartupGiveUp ==
    /\ startup.pc = "waited"
    /\ GaveUp(startup.retry_count)
    /\ startup' = [startup EXCEPT !.pc = "done", !.warned = TRUE]
    /\ UNCHANGED <<companies, clock, pc, request, query_body, response,
                   repeats, tags_index, inflight>>

\* The try block: create the index unless it exists; an exception of either
\* engine call is printed and the hook returns all the same.
StartupCreateIndex ==
    /\ startup.pc = "waited"
    /\ ~GaveUp(startup.retry_count)
    /\ \E outcome \in IndexOutcomes :
          /\ outcome = "exists" => startup.index_exists
          /\ outcome \in {"created", "create_raises"} => ~startup.index_exists
          /\ startup' = [startup EXCEPT
                 !.pc = "done",
                 !.checked = TRUE,
                 !.created = (outcome = "created"),
                 !.index_exists = @ \/ outcome = "created"]
    /\ UNCHANGED <<companies, clock, pc, request, query_body, response,
                   repeats, tags_index, inflight>>

----------------------------------------------------------------------------
(* The ingestion run: main and ingest_data, data-pipeline/ingest_data.py *)

EmptyIndex == [id \in {} |-> None]

\* create_tags_index: the six sample tags, indexed under the ids 1..6.
SampleTag(name, description, is_shared, now) ==
    [name |-> name, description |-> Some(description),
     is_shared |-> is_shared, created_by |-> None, created_at |-> now]

SampleTags(now) ==
    [id \in {"1", "2", "3", "4", "5", "6"} |->
        CASE id = "1" -> SampleTag("tech-leaders",
                                   "Leading technology companies", TRUE, now)
          [] id = "2" -> SampleTag("california-startups",
                                   "Companies based in California", TRUE, now)
          [] id = "3" -> SampleTag("enterprise-clients",
                                   "Large enterprise companies", TRUE, now)
          [] id = "4" -> SampleTag("potential-partners",
                                   "Potential business partners", TRUE, now)
          [] id = "5" -> SampleTag("competitors",
                                   "Direct competitors", FALSE, now)
          [] id = "6" -> SampleTag("targets",
                                   "Target companies for acquisition", FALSE,
                                   now)]

\* The pipeline recreates both indices and bulk-loads the rows; it exits with
\* status 1, the indices untouched, when it cannot connect to the engine.
IngestData ==
    /\ pc = "received"
    /\ request.op = "ingest"
    /\ clock < MaxClock
    /\ IF request.es_ok
       THEN /\ companies' = BulkDocs(request.rows, clock)
            /\ tags_index' = SampleTags(clock)
            /\ clock' = clock + 1
            /\ response' = [status |-> 0]
       ELSE /\ response' = [status |-> 1]
            /\ UNCHANGED <<companies, tags_index, clock>>
    /\ pc' = "done"
    /\ UNCHANGED <<request, query_body, repeats, inflight, startup>>

----------------------------------------------------------------------------
(* Company and tag handlers: backend/main.py *)

\* The identifiers the engine assigns to documents indexed without one.
AutoIds == <<"a1", "a2", "a3">>
HasAutoId(index) == \E i \in 1..Len(AutoIds) : AutoIds[i] \notin DOMAIN index
AutoId(index) ==
    AutoIds[CHOOSE i \in 1..Len(AutoIds) :
               /\ AutoIds[i] \notin DOMAIN index
               /\ \A j \in 1..(i - 1) : AutoIds[j] \in DOMAIN index]

\* es_client.index(index="companies", id=id, body=source)
EsIndex(index, id, source) ==
    [i \in DOMAIN index \cup {id} |-> IF i = id THEN source ELSE index[i]]

\* es_client.get succeeds: the engine answers and has the document.
EsGetOk ==
    /\ request.es_ok
    /\ request.company_id \in DOMAIN companies

\* GET /companies/{company_id}: any failure, of the engine or of the
\* mapping to Company, is answered 404.
GetCompany ==
    /\ pc = "received"
    /\ request.op = "get_company"
    /\ response' =
         IF EsGetOk /\ SchemaOk(companies[request.company_id])
         THEN [status |-> 200,
               company |-> ToCompany(request.company_id,
                                     companies[request.company_id])]
         ELSE [status |-> 404, detail |-> "Company not found"]
    /\ pc' = "done"
    /\ UNCHANGED <<companies, clock, request, query_body, repeats,
                   tags_index, inflight, startup>>

CompanyData_DropsTags(company, now) ==
    [name |-> company.name,
     domain |-> company.domain,
     year_founded |-> company.year_founded,
     industry |-> company.industry,
     size_range |-> company.size_range,
     locality |-> company.locality,
     country |-> company.country,
     linkedin_url |-> company.linkedin_url,
     current_employee_estimate |-> company.current_employee_estimate,
     total_employee_estimate |-> company.total_employee_estimate,
     size_category |-> None,
     tags |-> <<>>,
     created_at |-> now,
     updated_at |-> now]

\* company.dict(exclude={"id"}) with created_at and updated_at.
CompanyData(company, now) ==
    [name |-> company.name,
     domain |-> company.domain,
     year_founded |-> company.year_founded,
     industry |-> company.industry,
     size_range |-> company.size_range,
     locality |-> company.locality,
     country |-> company.country,
     linkedin_url |-> company.linkedin_url,
     current_employee_estimate |-> company.current_employee_estimate,
     total_employee_estimate |-> company.total_employee_estimate,
     size_category |-> None,
     tags |-> company.tags,
     created_at |-> now,
     updated_at |-> now]

\* POST /companies: index under company.id when it is truthy, else under an
\* identifier of the engine's.
CreateCompany ==
    /\ pc = "received"
    /\ request.op = "create_company"
    /\ TruthyStr(request.company.id) \/ HasAutoId(companies)
    /\ LET company_id == IF TruthyStr(request.company.id)
                         THEN Val(request.company.id)
                         ELSE AutoId(companies)
           company_data == CompanyData(request.company, clock)
       IN  IF request.es_ok
           THEN /\ companies' = EsIndex(companies, company_id, company_data)
                /\ response' = [status |-> 200,
                                company |-> ToCompany(company_id, company_data)]
           ELSE /\ companies' = companies
                /\ response' = [status |-> 500,
                                detail |-> "Failed to save company",
                                error |-> "ConnectionError"]
    /\ clock' = clock + 1
    /\ pc' = "done"
    /\ UNCHANGED <<request, query_body, repeats,
                   tags_index, inflight, startup>>

AddTagUpdate_AlwaysAppends(source, tag_name, now) ==
    [writes |-> TRUE,
     company_data |-> [source EXCEPT !.tags = source.tags \o <<tag_name>>,
                                     !.updated_at = now]]

\* The if of add_tag_to_company: when the tag is not in the list it is
\* appended, updated_at is set and the document is written; else the
\* document stays as read and nothing is written.
AddTagUpdate(source, tag_name, now) ==
    IF ~In(tag_name, source.tags)
    THEN [writes |-> TRUE,
          company_data |-> [source EXCEPT !.tags = source.tags \o <<tag_name>>,
                                          !.updated_at = now]]
    ELSE [writes |-> FALSE, company_data |-> source]

\* POST /companies/{company_id}/tags
AddTagToCompany ==
    /\ pc = "received"
    /\ request.op = "add_tag"
    /\ IF EsGetOk
       THEN LET update == AddTagUpdate(companies[request.company_id],
                                       request.tag_name, clock)
            IN  /\ companies' = IF update.writes
                                THEN EsIndex(companies, request.company_id,
                                             update.company_data)
                                ELSE companies
                /\ clock' = IF update.writes THEN clock + 1 ELSE clock
                /\ response' = [status |-> 200,
                                message |-> "Tag added successfully",
                                tags |-> update.company_data.tags]
       ELSE /\ response' = [status |-> 500, detail |-> "Failed to add tag"]
            /\ UNCHANGED <<companies, clock>>
    /\ pc' = "done"
    /\ UNCHANGED <<request, query_body, repeats,
                   tags_index, inflight, startup>>

RemoveTagUpdate_AlwaysWrites(source, tag_name, now) ==
    [writes |-> TRUE,
     company_data |-> [source EXCEPT !.tags = Without(source.tags, tag_name),
                                     !.updated_at = now]]

\* The if of remove_tag_from_company: when the tag is in the list it is
\* filtered out, updated_at is set and the document is written; else the
\* document stays as read and nothing is written.
RemoveTagUpdate(source, tag_name, now) ==
    IF In(tag_name, source.tags)
    THEN [writes |-> TRUE,
          company_data |-> [source EXCEPT
                               !.tags = Without(source.tags, tag_name),
                               !.updated_at = now]]
    ELSE [writes |-> FALSE, company_data |-> source]

\* DELETE /companies/{company_id}/tags
RemoveTagFromCompany ==
    /\ pc = "received"
    /\ request.op = "remove_tag"
    /\ IF EsGetOk
       THEN LET update == RemoveTagUpdate(companies[request.company_id],
                                          request.tag_name, clock)
            IN  /\ companies' = IF update.writes
                                THEN EsIndex(companies, request.company_id,
                                             update.company_data)
                                ELSE companies
                /\ clock' = IF update.writes THEN clock + 1 ELSE clock
                /\ response' = [status |-> 200,
                                message |-> "Tag removed successfully",
                                tags |-> update.company_data.tags]
       ELSE /\ response' = [status |-> 500, detail |-> "Failed to remove tag"]
            /\ UNCHANGED <<companies, clock>>
    /\ pc' = "done"
    /\ UNCHANGED <<request, query_body, repeats,
                   tags_index, inflight, startup>>

\* GET /companies/{company_id}/tags
GetCompanyTags ==
    /\ pc = "received"
    /\ request.op = "get_company_tags"
    /\ response' =
         IF EsGetOk
         THEN [status |-> 200, tags |-> companies[request.company_id].tags]
         ELSE [status |-> 404, detail |-> "Company not found"]
    /\ pc' = "done"
    /\ UNCHANGED <<companies, clock, request, query_body, repeats,
                   tags_index, inflight, startup>>

----------------------------------------------------------------------------
(* Tag directory, suggestions and filter options: backend/main.py *)

\* The identifiers the engine assigns to tags indexed without one, and the
\* order in which a match_all search returns the tags.
TagAutoIds == <<"t1", "t2", "t3">>
TagIndexOrder == <<"1", "2", "3", "4", "5", "6", "t1", "t2", "t3">>

HasTagAutoId(index) ==
    \E i \in 1..Len(TagAutoIds) : TagAutoIds[i] \notin DOMAIN index
TagAutoId(index) ==
    TagAutoIds[CHOOSE i \in 1..Len(TagAutoIds) :
                  /\ TagAutoIds[i] \notin DOMAIN index
                  /\ \A j \in 1..(i - 1) : TagAutoIds[j] \in DOMAIN index]

\* Tag(**tag_data) with the hit's id; created_at is no field of Tag.
ToTag(id, source) ==
    [id |-> id,
     name |-> source.name,
     description |-> source.description,
     is_shared |-> source.is_shared,
     created_by |-> source.created_by]

\* tag.dict(exclude={"id"}) with created_at.
TagData(tag, now) ==
    [name |-> tag.name,
     description |-> tag.description,
     is_shared |-> tag.is_shared,
     created_by |-> tag.created_by,
     created_at |-> now]

\* es_client.search(index="tags", match_all): the first ten tags.
EsSearchTags(index) ==
    LET ids == SelectSeq(TagIndexOrder, LAMBDA id : id \in DOMAIN index)
        page == SubSeq(ids, 1, IF Len(ids) < 10 THEN Len(ids) ELSE 10)
    IN  [i \in 1..Len(page) |-> [_id |-> page[i], _source |-> index[page[i]]]]

\* GET /tags: every failure is answered with the empty list.
GetTags ==
    /\ pc = "received"
    /\ request.op = "get_tags"
    /\ response' =
         IF request.es_ok
         THEN LET hits == EsSearchTags(tags_index)
              IN  [status |-> 200,
                   tags |-> [i \in 1..Len(hits) |->
                               ToTag(hits[i]._id, hits[i]._source)]]
         ELSE [status |-> 200, tags |-> <<>>]
    /\ pc' = "done"
    /\ UNCHANGED <<companies, clock, request, query_body, repeats,
                   tags_index, inflight, startup>>

\* What create_tag answers: the stored tag, or 500 with detail
\* "Failed to create tag: " and str(e), here `error`.
CreateTagResponse(tag_id, tag_data, es_ok) ==
    IF es_ok
    THEN [status |-> 200, tag |-> ToTag(tag_id, tag_data)]
    ELSE [status |-> 500, detail |-> "Failed to create tag",
          error |-> "ConnectionError"]

\* POST /tags: index the tag under an identifier of the engine's.
CreateTag ==
    /\ pc = "received"
    /\ request.op = "create_tag"
    /\ HasTagAutoId(tags_index)
    /\ LET tag_id == TagAutoId(tags_index)
           tag_data == TagData(request.tag, clock)
       IN  /\ tags_index' = IF request.es_ok
                            THEN EsIndex(tags_index, tag_id, tag_data)
                            ELSE tags_index
           /\ response' = CreateTagResponse(tag_id, tag_data, request.es_ok)
    /\ clock' = clock + 1
    /\ pc' = "done"
    /\ UNCHANGED <<companies, request, query_body, repeats, inflight, startup>>

\* The prefixes of two and more letters of the company names of the model.
NamePrefixes(name) ==
    CASE name = "acme" -> {"ac", "acm", "acme"}
      [] name = "globex" -> {"gl", "glo", "glob", "globe", "globex"}
      [] name = "initech" ->
           {"in", "ini", "init", "inite", "initec", "initech"}
      [] name = "umbrella" ->
           {"um", "umb", "umbr", "umbre", "umbrel", "umbrell", "umbrella"}
      [] OTHER -> {}

\* The completion suggester on name.suggest: the names that start with the
\* prefix, ten at most.
EsSuggest(index, prefix) ==
    LET ids == SelectSeq(IndexOrder,
                         LAMBDA id : /\ id \in DOMAIN index
                                     /\ prefix \in NamePrefixes(index[id].name))
        page == SubSeq(ids, 1, IF Len(ids) < 10 THEN Len(ids) ELSE 10)
    IN  [i \in 1..Len(page) |-> index[page[i]].name]

\* GET /suggest?q=: every failure is answered with no suggestion.
GetSuggestions ==
    /\ pc = "received"
    /\ request.op = "get_suggestions"
    /\ response' =
         [status |-> 200,
          suggestions |-> IF request.es_ok THEN EsSuggest(companies, request.q)
                          ELSE <<>>]
    /\ pc' = "done"
    /\ UNCHANGED <<companies, clock, request, query_body, repeats,
                   tags_index, inflight, startup>>

\* The keyword values a terms aggregation counts.
AggValues(source, field) ==
    IF field = "size_category"
    THEN (IF source.size_category = None THEN {}
          ELSE {Val(source.size_category)})
    ELSE KeywordValues(source, field)

\* The byte order of the keywords of the model.
KeywordOrder ==
    <<"Large (10001+)", "Medium (1000-10000)", "Small (<1000)", "Unknown",
      "austin", "berlin", "de", "internet", "seattle", "software", "us">>
KeywordRank(key) ==
    CHOOSE i \in 1..Len(KeywordOrder) : KeywordOrder[i] = key

\* .*q.* matches the keyword: q is a substring of it.
Contains(key, q) ==
    <<key, q>> \in {<<"austin", "in">>, <<"berlin", "in">>,
                    <<"berlin", "be">>, <<"seattle", "se">>,
                    <<"seattle", "a">>, <<"austin", "a">>}

\* The keywords an `include` pattern lets through, and those let through
\* without one.
Including(q) ==
    {KeywordOrder[i] : i \in {j \in 1..Len(KeywordOrder) :
                                 Contains(KeywordOrder[j], q)}}
AnyKey == {KeywordOrder[i] : i \in 1..Len(KeywordOrder)}

\* A terms aggregation: the keys of the included values, the most frequent
\* first and equally frequent ones in key order, `size` at most.
TermsBuckets(index, field, include, size) ==
    LET keys == {k \in UNION {AggValues(index[id], field) : id \in DOMAIN index} :
                    k \in include}
        doc_count(k) ==
            Cardinality({id \in DOMAIN index : k \in AggValues(index[id], field)})
        Before(a, b) ==
            \/ doc_count(a) > doc_count(b)
            \/ doc_count(a) = doc_count(b) /\ KeywordRank(a) < KeywordRank(b)
        place(a) == 1 + Cardinality({b \in keys : Before(b, a)})
        n == Cardinality(keys)
    IN  [i \in 1..(IF n < size THEN n ELSE size) |->
            CHOOSE a \in keys : place(a) = i]

\* GET /suggest/cities?q=: every failure is answered with no suggestion.
GetCitySuggestions ==
    /\ pc = "received"
    /\ request.op = "get_city_suggestions"
    /\ response' =
         [status |-> 200,
          suggestions |->
             IF request.es_ok
             THEN TermsBuckets(companies, "locality.keyword",
                               Including(request.q), 5)
             ELSE <<>>]
    /\ pc' = "done"
    /\ UNCHANGED <<companies, clock, request, query_body, repeats,
                   tags_index, inflight, startup>>

\* What get_filter_options answers: the keys of the four aggregations, or
\* four empty lists on any failure.
FilterOptions(index, es_ok) ==
    IF es_ok
    THEN [status |-> 200,
          industries |-> TermsBuckets(index, "industry.keyword", AnyKey, 100),
          size_ranges |-> TermsBuckets(index, "size_category", AnyKey, 100),
          countries |-> TermsBuckets(index, "country.keyword", AnyKey, 100),
          localities |-> TermsBuckets(index, "locality.keyword", AnyKey, 100)]
    ELSE [status |-> 200, industries |-> <<>>, size_ranges |-> <<>>,
          countries |-> <<>>, localities |-> <<>>]

\* GET /filters
GetFilterOptions ==
    /\ pc = "received"
    /\ request.op = "get_filter_options"
    /\ response' = FilterOptions(companies, request.es_ok)
    /\ pc' = "done"
    /\ UNCHANGED <<companies, clock, request, query_body, repeats,
                   tags_index, inflight, startup>>

----------------------------------------------------------------------------
(* Inputs *)

CsvRow(name, industry, locality, country, year_founded, employees) ==
    [name |-> name,
     domain |-> "example.com",
     year_founded |-> year_founded,
     industry |-> industry,
     size_range |-> "1-10",
     locality |-> locality,
     country |-> country,
     linkedin_url |-> "linkedin.com/company",
     current_employee_estimate |-> employees,
     total_employee_estimate |-> IF employees = None THEN None ELSE Some(0)]

\* A companies.csv: one company per size bucket and one without a count.
CsvRows ==
    <<CsvRow("acme", "internet", "austin", "us", Some(1990), Some(500)),
      CsvRow("globex", "software", "seattle", "us", Some(2004), Some(10001)),
      CsvRow("initech", "internet", "berlin", "de", None, Some(1000)),
      CsvRow("umbrella", "software", "berlin", "de", Some(2010), None)>>

\* The employee counts of an ingested row: none, or -1..MaxCount.
CountValues == {None} \cup {Some(c) : c \in (0 - 1)..MaxCount}

BucketNames == {"Large (10001+)", "Medium (1000-10000)", "Small (<1000)"}

\* The size_range lists of a request: absent, or up to MaxBuckets names, a
\* name being a bucket or the "Unknown" that /filters also offers.
SizeRangeLists ==
    {None} \cup
    {Some(list) : list \in UNION {[1..n -> BucketNames \cup {"Unknown"}] :
                                     n \in 0..MaxBuckets}}

\* SearchRequest() with every field at its default.
DefaultSearchRequest ==
    [query |-> None, industry |-> None, size_range |-> None, country |-> None,
     locality |-> None, year_founded_from |-> None, year_founded_to |-> None,
     tags |-> None, page |-> 1, size |-> 20, sort_by |-> "relevance"]

QueryTexts == {None, Some(""), Some("internet")}
FacetLists(value) == {None, Some(<<>>), Some(<<value>>)}

\* A request with the given text and filters, first page, default sort.
FilterRequest(q, i, s, c, l, yf, yt, t) ==
    [DefaultSearchRequest EXCEPT
        !.query = q, !.industry = i, !.size_range = s, !.country = c,
        !.locality = l, !.year_founded_from = yf, !.year_founded_to = yt,
        !.tags = t]

\* A request with the given text, size buckets, page, page size and sort.
PagingRequest(q, s, p, n, o) ==
    [DefaultSearchRequest EXCEPT
        !.query = q, !.size_range = s, !.page = p, !.size = n, !.sort_by = o]

SortModes == {"relevance", "name", "size", "founded"}

----------------------------------------------------------------------------
(* One search against an ingested index *)

\* The index after CsvRows were ingested at time 0 and company "3" was
\* tagged "vip" at time 1.
SearchedIndex ==
    LET ingested == BulkDocs(CsvRows, 0)
    IN  EsIndex(ingested, "3",
                AddTagUpdate(ingested["3"], "vip", 1).company_data)

\* The request is one over every combination of filters, or one over every
\* page, page size and sort mode (page size 0 included), the engine call
\* failing or not.
InitSearch ==
    /\ companies = SearchedIndex
    /\ clock = 2
    /\ pc = "received"
    /\ \/ \E q \in QueryTexts, i \in FacetLists("internet"),
             s \in SizeRangeLists, c \in FacetLists("us"),
             l \in FacetLists("berlin"),
             yf \in {None, Some(0), Some(1990)},
             yt \in {None, Some(0), Some(2004)}, t \in FacetLists("vip") :
             request = [op |-> "search", es_ok |-> TRUE,
                        search_request |->
                           FilterRequest(q, i, s, c, l, yf, yt, t)]
       \/ \E ok \in BOOLEAN, q \in QueryTexts, s \in SizeRangeLists,
             p \in 1..MaxPage, n \in 0..MaxSize, o \in SortModes :
             request = [op |-> "search", es_ok |-> ok,
                        search_request |-> PagingRequest(q, s, p, n, o)]
    /\ query_body = None
    /\ response = None
    /\ repeats = 0
    /\ tags_index = SampleTags(0)
    /\ inflight = NoWorkers
    /\ startup = StartupDone

NextSearch == SearchCompanies

SpecSearch == InitSearch /\ [][NextSearch]_vars

----------------------------------------------------------------------------
(* One row ingested, then searched for by size bucket *)

InitSize ==
    /\ companies = EmptyIndex
    /\ clock = 0
    /\ pc = "received"
    /\ \E c \in CountValues :
         request = [op |-> "ingest", es_ok |-> TRUE,
                    rows |-> <<CsvRow("acme", "internet", "austin", "us",
                                      None, c)>>]
    /\ query_body = None
    /\ response = None
    /\ repeats = 0
    /\ tags_index = SampleTags(0)
    /\ inflight = NoWorkers
    /\ startup = StartupDone

\* POST /search with size_range = [b], after the ingestion run.
ReceiveSizeSearch ==
    /\ pc = "done"
    /\ request.op = "ingest"
    /\ \E b \in BucketNames :
         request' = [op |-> "search", es_ok |-> TRUE,
                     search_request |->
                        [DefaultSearchRequest EXCEPT !.size_range = Some(<<b>>)]]
    /\ pc' = "received"
    /\ UNCHANGED <<companies, clock, query_body, response, repeats,
                   tags_index, inflight, startup>>

NextSize == IngestData \/ ReceiveSizeSearch \/ SearchCompanies

SpecSize == InitSize /\ [][NextSize]_vars

----------------------------------------------------------------------------
(* Properties of the size buckets (SpecSize) *)

\* The ingested row's document, once the ingestion run has stored it.
RowIngested == "1" \in DOMAIN companies
RowCount == companies["1"].current_employee_estimate
RowCategory == Val(companies["1"].size_category)

\* A search for one size bucket has been answered.
SizeSearched == pc = "done" /\ request.op = "search"
SearchedBucket == Val(request.search_request.size_range)[1]

\* C1: the size category ingestion stores for a row is "Unknown" iff the
\* row has no employee count, "Large (10001+)" iff the count is >= 10001,
\* "Medium (1000-10000)" iff it is in 1000..10000 and "Small (<1000)" iff it
\* is below 1000; 999 is Small, 1000 and 10000 are Medium, 10001 is Large.
C1_CategorizeBoundaries ==
    RowIngested =>
        /\ RowCategory = "Unknown" <=> RowCount = None
        /\ RowCategory = "Large (10001+)"
              <=> (RowCount # None /\ Val(RowCount) >= 10001)
        /\ RowCategory = "Medium (1000-10000)"
              <=> (RowCount # None /\ Val(RowCount) >= 1000
                                   /\ Val(RowCount) <= 10000)
        /\ RowCategory = "Small (<1000)"
              <=> (RowCount # None /\ Val(RowCount) < 1000)
        /\ RowCount = Some(999) => RowCategory = "Small (<1000)"
        /\ RowCount \in {Some(1000), Some(10000)}
              => RowCategory = "Medium (1000-10000)"
        /\ RowCount = Some(10001) => RowCategory = "Large (10001+)"

C1_Witness ==
    /\ RowIngested
    /\ RowCount = Some(10000)
    /\ RowCategory = "Medium (1000-10000)"

\* C2: a search filtered by one size bucket b finds the ingested document
\* iff the category ingestion gave the document is b; a document without an
\* employee count is found under no bucket.
C2_QueryBucketsMatchIngest ==
    SizeSearched =>
        /\ response.status = 200
        /\ response.total = 1 <=> companies["1"].size_category = Some(SearchedBucket)
        /\ response.total = 1 <=> Len(response.companies) = 1
        /\ RowCount = None => response.total = 0

C2_Witness ==
    /\ SizeSearched
    /\ RowCount = Some(1000)
    /\ SearchedBucket = "Medium (1000-10000)"
    /\ response.total = 1

----------------------------------------------------------------------------
(* Properties of the compiled query and the response (SpecSearch) *)

Searched == pc = "done" /\ request.op = "search"
Req == request.search_request

\* The positions of the filter clauses of one kind (and field).
FilterKind(kind) ==
    {i \in 1..Len(query_body.filter) : query_body.filter[i].kind = kind}
FilterOn(kind, field) ==
    {i \in FilterKind(kind) : query_body.filter[i].field = field}

\* The order the engine sorts a sort entry in.
EffectiveOrder(sort) ==
    IF sort.order = "default"
    THEN (IF sort.field = "_score" THEN "desc" ELSE "asc")
    ELSE sort.order

\* C3: a request with a non-empty size_range compiles to exactly one filter
\* clause, the OR of one range per requested bucket, and a document is hit
\* only if its employee count lies in one of the requested buckets and it
\* passes every other filter clause.
C3_SizeRangeOrOfRanges ==
    (Searched /\ TruthyList(Req.size_range)) =>
        /\ Cardinality(FilterKind("bool")) = 1
        /\ \A i \in FilterKind("bool") :
              Len(query_body.filter[i].should) = Len(Val(Req.size_range))
        /\ \A id \in DOMAIN companies :
              QueryMatches(query_body, companies[id]) =>
                 /\ \E k \in 1..Len(Val(Req.size_range)) :
                       /\ Val(Req.size_range)[k] \in BucketNames
                       /\ companies[id].size_category
                             = Some(Val(Req.size_range)[k])
                 /\ \A i \in 1..Len(query_body.filter) :
                       query_body.filter[i].kind # "bool" =>
                          ClauseMatches(query_body.filter[i], companies[id])

\* C4: the total_pages of a search response is ceil(total / size): the only
\* n with (n - 1) * size < total <= n * size, which is 0 for a total of 0.
C4_TotalPagesIsCeiling ==
    (Searched /\ response.status = 200) =>
        /\ Req.size > 0
        /\ response.total >= 0
        /\ response.total_pages * Req.size >= response.total
        /\ (response.total_pages - 1) * Req.size < response.total
        /\ response.total = 0 => response.total_pages = 0

C4_Witness ==
    /\ Searched
    /\ response.status = 200
    /\ response.total = 4
    /\ Req.size = 3
    /\ response.total_pages = 2

\* A request with no query text and no filter.
NoTextNoFilters ==
    /\ ~TruthyStr(Req.query)
    /\ \A f \in {"industry", "size_range", "country", "locality", "tags"} :
          ~TruthyList(Req[f])
    /\ Req.year_founded_from = None
    /\ Req.year_founded_to = None

\* C5: a request with no query text and no filters, whatever its page, size
\* and sort_by, compiles to an empty must list and an empty filter list, and
\* with the default sort_by it is sorted by descending score.
C5_EmptyRequestMatchesAll ==
    (Searched /\ NoTextNoFilters) =>
        /\ query_body.must = <<>>
        /\ query_body.filter = <<>>
        /\ Req.sort_by = "relevance" =>
              /\ Len(query_body.sort) = 1
              /\ query_body.sort[1].field = "_score"
              /\ EffectiveOrder(query_body.sort[1]) = "desc"

C5_Witness ==
    /\ Searched
    /\ NoTextNoFilters
    /\ Req.query = Some("")
    /\ Req.industry = Some(<<>>)
    /\ query_body.must = <<>>
    /\ query_body.filter = <<>>

\* The engine field a facet of the request filters on.
FacetField(facet) ==
    CASE facet = "industry" -> "industry.keyword"
      [] facet = "country" -> "country.keyword"
      [] facet = "locality" -> "locality.keyword"
      [] facet = "tags" -> "tags"

Facets == {"industry", "country", "locality", "tags"}

\* C6: each of industry, country, locality and tags compiles to exactly one
\* terms clause carrying its list when the list is present and non-empty and
\* to none otherwise, so there are as many terms clauses as non-empty facet
\* lists; every hit matches all of them.
C6_FacetTermsClauses ==
    Searched =>
        /\ \A f \in Facets :
              IF TruthyList(Req[f])
              THEN /\ Cardinality(FilterOn("terms", FacetField(f))) = 1
                   /\ \A i \in FilterOn("terms", FacetField(f)) :
                         query_body.filter[i].values = Val(Req[f])
              ELSE FilterOn("terms", FacetField(f)) = {}
        /\ Cardinality(FilterKind("terms"))
              = Cardinality({f \in Facets : TruthyList(Req[f])})
        /\ response.status = 200 =>
              \A k \in 1..Len(response.companies) :
                 \A f \in Facets :
                    TruthyList(Req[f]) =>
                       \E v \in KeywordValues(response.companies[k], FacetField(f)) :
                          In(v, Val(Req[f]))

C6_Witness ==
    /\ Searched
    /\ Req.industry = Some(<<"internet">>)
    /\ Req.country = Some(<<>>)
    /\ Req.locality = Some(<<"berlin">>)
    /\ Req.tags = Some(<<"vip">>)
    /\ Cardinality(FilterKind("terms")) = 3
    /\ response.status = 200
    /\ response.total = 1

\* C7: when year_founded_from or year_founded_to is given (any integer, 0
\* included) the query has exactly one range on year_founded, with a lower
\* bound iff year_founded_from was given and an upper bound iff
\* year_founded_to was given; when neither is given it has none.
C7_YearRangeForGivenBounds ==
    Searched =>
        IF Req.year_founded_from # None \/ Req.year_founded_to # None
        THEN /\ Cardinality(FilterOn("range", "year_founded")) = 1
             /\ \A i \in FilterOn("range", "year_founded") :
                   /\ query_body.filter[i].gte # None
                         <=> Req.year_founded_from # None
                   /\ query_body.filter[i].lte # None
                         <=> Req.year_founded_to # None
                   /\ query_body.filter[i].lt = None
        ELSE FilterOn("range", "year_founded") = {}

\* C8: the query carries exactly one sort entry: ascending name.keyword for
\* "name", descending current_employee_estimate for "size", descending _score
\* for "relevance" and for every other value.
C8_OneSortPerMode ==
    Searched =>
        /\ Len(query_body.sort) = 1
        /\ query_body.sort[1].field =
              (CASE Req.sort_by = "name" -> "name.keyword"
                 [] Req.sort_by = "size" -> "current_employee_estimate"
                 [] OTHER -> "_score")
        /\ EffectiveOrder(query_body.sort[1]) =
              (IF Req.sort_by = "name" THEN "asc" ELSE "desc")

C8_Witness ==
    /\ Searched
    /\ Req.sort_by = "founded"
    /\ query_body.sort[1].field = "_score"

----------------------------------------------------------------------------
(* The service after startup, serving one request after the other (Spec) *)

\* A Company body of POST /companies.
CompanyBody(id, tags) ==
    [id |-> id,
     name |-> "globex",
     domain |-> "example.com",
     year_founded |-> Some(2004),
     industry |-> "software",
     size_range |-> "10001+",
     locality |-> "seattle",
     country |-> "us",
     linkedin_url |-> "linkedin.com/company",
     current_employee_estimate |-> Some(10001),
     total_employee_estimate |-> Some(10001),
     tags |-> tags]

CompanyIds == {"1", "2", "a1"}
TagNames == {"vip", "new"}

Requests ==
    {[op |-> "ingest", es_ok |-> ok, rows |-> <<CsvRows[1], CsvRows[4]>>] :
        ok \in BOOLEAN}
    \cup
    {[op |-> "create_company", es_ok |-> ok, company |-> CompanyBody(id, tags)] :
        ok \in BOOLEAN, id \in {None, Some("1")},
        tags \in {<<>>, <<"vip", "vip">>}}
    \cup
    {[op |-> op, es_ok |-> ok, company_id |-> id] :
        op \in {"get_company", "get_company_tags"}, ok \in BOOLEAN,
        id \in CompanyIds}
    \cup
    {[op |-> op, es_ok |-> ok, company_id |-> id, tag_name |-> t] :
        op \in {"add_tag", "remove_tag"}, ok \in BOOLEAN,
        id \in CompanyIds, t \in TagNames}

\* The next request arrives; repeats counts the times it repeats the
\* request answered just before.
Receive ==
    /\ pc = "done"
    /\ clock < MaxClock
    /\ \E r \in Requests :
         /\ request' = r
         /\ repeats' = IF r = request
                       THEN (IF repeats < MaxRepeats THEN repeats + 1
                             ELSE repeats)
                       ELSE 0
    /\ pc' = "received"
    /\ UNCHANGED <<companies, clock, query_body, response,
                   tags_index, inflight, startup>>

\* After startup: create_index has made the empty companies index.
Init ==
    /\ companies = EmptyIndex
    /\ clock = 0
    /\ pc = "done"
    /\ request = [op |-> "startup", es_ok |-> TRUE]
    /\ query_body = None
    /\ response = None
    /\ repeats = 0
    /\ tags_index = EmptyIndex
    /\ inflight = NoWorkers
    /\ startup = StartupDone

Next ==
    \/ Receive
    \/ IngestData
    \/ GetCompany
    \/ CreateCompany
    \/ AddTagToCompany
    \/ RemoveTagFromCompany
    \/ GetCompanyTags

Spec == Init /\ [][Next]_vars

----------------------------------------------------------------------------
(* Properties of tag membership (Spec) *)

\* The handler of a tag request is about to run on a company the engine
\* has, the engine answering.
TagCallOnCompany(op) ==
    /\ pc = "received"
    /\ request.op = op
    /\ EsGetOk

\* C9: when add_tag_to_company runs again with the same company and tag
\* name right after it ran with them, the call succeeds, writes nothing to
\* the engine, and the stored tag list holds the name exactly once.
C9_AddTagTwiceOnce ==
    [][(TagCallOnCompany("add_tag") /\ repeats >= 1)
         => /\ response'.status = 200
            /\ companies' = companies
            /\ Count(request.tag_name, companies'[request.company_id].tags) = 1]_vars

\* C10: remove_tag_from_company with a tag name that is not in the tag list
\* of an existing company succeeds, leaves the index (the document's tags
\* and updated_at included) as it was, and reports the unchanged tag list.
C10_RemoveAbsentTagNoOp ==
    [][(/\ TagCallOnCompany("remove_tag")
        /\ ~In(request.tag_name, companies[request.company_id].tags))
         => /\ response'.status = 200
            /\ companies' = companies
            /\ response'.tags = companies[request.company_id].tags]_vars

\* A removal of "new" was answered for a company created with two "vip"
\* tags and never written since.
C10_Witness ==
    /\ pc = "done"
    /\ request.op = "remove_tag"
    /\ request.tag_name = "new"
    /\ response.status = 200
    /\ request.company_id \in DOMAIN companies
    /\ companies[request.company_id].tags = <<"vip", "vip">>
    /\ companies[request.company_id].updated_at
          = companies[request.company_id].created_at
    /\ response.tags = <<"vip", "vip">>

----------------------------------------------------------------------------
(* A company created without an id, then fetched (SpecRoundTrip) *)

\* A valid Company body: pydantic has accepted it, so both estimates are
\* integers; year_founded is optional.
CompanyOf(name, year_founded, employees, tags) ==
    [CompanyBody(None, tags) EXCEPT
        !.name = name,
        !.year_founded = year_founded,
        !.current_employee_estimate = Some(employees),
        !.total_employee_estimate = Some(employees)]

CompanyNames == {"acme", "globex"}
CompanyTagLists == {<<>>, <<"vip">>, <<"vip", "vip">>, <<"new", "vip">>}

\* The fields of Company other than id.
CompanyFields ==
    {"name", "domain", "year_founded", "industry", "size_range", "locality",
     "country", "linkedin_url", "current_employee_estimate",
     "total_employee_estimate", "tags"}

\* POST /companies without an id arrives at an empty or an ingested index.
InitRoundTrip ==
    /\ \E ingested \in BOOLEAN :
          /\ companies = IF ingested THEN BulkDocs(<<CsvRows[1]>>, 0)
                         ELSE EmptyIndex
          /\ tags_index = IF ingested THEN SampleTags(0) ELSE EmptyIndex
    /\ clock = 1
    /\ pc = "received"
    /\ \E name \in CompanyNames, year \in {None, Some(2004)},
          employees \in {0, 10001}, tags \in CompanyTagLists,
          ok \in BOOLEAN :
          request = [op |-> "create_company", es_ok |-> ok,
                     company |-> CompanyOf(name, year, employees, tags)]
    /\ query_body = None
    /\ response = None
    /\ repeats = 0
    /\ inflight = NoWorkers
    /\ startup = StartupDone

\* The client follows the creation with GET /companies/{returned id}.
ReceiveGetCreated ==
    /\ pc = "done"
    /\ request.op = "create_company"
    /\ response.status = 200
    /\ \E ok \in BOOLEAN :
          request' = [op |-> "get_company", es_ok |-> ok,
                      company_id |-> response.company.id]
    /\ pc' = "received"
    /\ UNCHANGED <<companies, clock, query_body, response, repeats,
                   tags_index, inflight, startup>>

NextRoundTrip == CreateCompany \/ ReceiveGetCreated \/ GetCompany

SpecRoundTrip == InitRoundTrip /\ [][NextRoundTrip]_vars

\* C11: a company created without an id comes back from the creation with
\* every submitted field and an identifier of the engine's, and the
\* get_company that follows with that identifier answers the same record,
\* tag list and identifier included.
C11_CreateThenGetRoundTrip ==
    [][/\ (pc = "received" /\ request.op = "create_company" /\ request.es_ok)
          => /\ response'.status = 200
             /\ In(response'.company.id, AutoIds)
             /\ \A f \in CompanyFields :
                   response'.company[f] = request.company[f]
       /\ (pc = "received" /\ request.op = "get_company" /\ request.es_ok)
          => /\ response'.status = 200
             /\ response'.company = response.company
             /\ response'.company.id = request.company_id]_vars

C11_Witness ==
    /\ pc = "done"
    /\ request.op = "get_company"
    /\ response.status = 200
    /\ response.company.id = "a1"
    /\ response.company.tags = <<"vip", "vip">>
    /\ response.company.year_founded = None
    /\ "1" \in DOMAIN companies

----------------------------------------------------------------------------
(* Properties of the lookups by identifier (Spec) *)

LookupOps == {"get_company", "get_company_tags", "add_tag", "remove_tag"}

\* C12: each of the four operations that look a company up by identifier
\* answers 404 when the engine holds no company under the identifier, and
\* leaves the companies index as it was.
C12_MissingCompanyIsNotFound ==
    [][(/\ pc = "received"
        /\ request.op \in LookupOps
        /\ request.es_ok
        /\ request.company_id \notin DOMAIN companies)
       => (response'.status = 404 /\ companies' = companies)]_vars

----------------------------------------------------------------------------
(* The service with a failing engine and incompatible documents (SpecApi) *)

TagBody(name, is_shared) ==
    [id |-> None, name |-> name, description |-> None,
     is_shared |-> is_shared, created_by |-> Some("alice")]

SuggestQueries == {"ac", "zz"}
CityQueries == {"in", "a", "zz"}

\* Searches whose page holds both ingested rows, one of them, or nothing.
ApiSearchRequests ==
    {DefaultSearchRequest,
     [DefaultSearchRequest EXCEPT !.size = 0],
     [DefaultSearchRequest EXCEPT !.size = 1, !.sort_by = "name"],
     [DefaultSearchRequest EXCEPT !.size = 1, !.page = 2, !.sort_by = "name"]}

ApiRequests ==
    {[op |-> "ingest", es_ok |-> ok, rows |-> <<CsvRows[1], CsvRows[4]>>] :
        ok \in BOOLEAN}
    \cup
    {[op |-> "search", es_ok |-> ok, search_request |-> r] :
        ok \in BOOLEAN, r \in ApiSearchRequests}
    \cup
    {[op |-> "create_company", es_ok |-> ok,
      company |-> CompanyBody(None, <<"vip">>)] : ok \in BOOLEAN}
    \cup
    {[op |-> "create_tag", es_ok |-> ok, tag |-> TagBody("vip", shared)] :
        ok \in BOOLEAN, shared \in BOOLEAN}
    \cup
    {[op |-> op, es_ok |-> ok] :
        op \in {"get_tags", "get_filter_options"}, ok \in BOOLEAN}
    \cup
    {[op |-> "get_suggestions", es_ok |-> ok, q |-> q] :
        ok \in BOOLEAN, q \in SuggestQueries}
    \cup
    {[op |-> "get_city_suggestions", es_ok |-> ok, q |-> q] :
        ok \in BOOLEAN, q \in CityQueries}

ReceiveApi ==
    /\ pc = "done"
    /\ clock < MaxClock
    /\ \E r \in ApiRequests : request' = r
    /\ pc' = "received"
    /\ UNCHANGED <<companies, clock, query_body, response, repeats,
                   tags_index, inflight, startup>>

NextApi ==
    \/ ReceiveApi
    \/ IngestData
    \/ SearchCompanies
    \/ CreateCompany
    \/ CreateTag
    \/ GetTags
    \/ GetSuggestions
    \/ GetCitySuggestions
    \/ GetFilterOptions

SpecApi == Init /\ [][NextApi]_vars

\* The result a handler answers with when it swallows a failure.
EmptyResult(op) ==
    CASE op = "get_tags" -> [status |-> 200, tags |-> <<>>]
      [] op = "get_filter_options" ->
           [status |-> 200, industries |-> <<>>, size_ranges |-> <<>>,
            countries |-> <<>>, localities |-> <<>>]
      [] OTHER -> [status |-> 200, suggestions |-> <<>>]

\* C13: when the engine call fails, search_companies, create_company and
\* create_tag answer 500 with the underlying message and nothing else, and
\* store nothing; a search one of whose hits does not fit Company answers
\* 500 too, without any of the other hits. get_tags, get_suggestions,
\* get_city_suggestions and get_filter_options always answer 200, with their
\* empty result when the engine call fails.
C13_ErrorsPropagateOrAreSwallowed ==
    [][pc = "received" =>
        /\ (request.op \in {"search", "create_company", "create_tag"}
            /\ ~request.es_ok)
           => /\ response'.status = 500
              /\ response'.error = "ConnectionError"
              /\ DOMAIN response' = {"status", "detail", "error"}
              /\ companies' = companies
              /\ tags_index' = tags_index
        /\ (/\ request.op = "search"
            /\ request.es_ok
            /\ \E i \in 1..Len(EsSearch(companies, query_body').hits) :
                  ~SchemaOk(EsSearch(companies, query_body').hits[i]._source))
           => /\ response'.status = 500
              /\ response'.error = "ValidationError"
              /\ DOMAIN response' = {"status", "detail", "error"}
        /\ request.op \in {"get_tags", "get_suggestions",
                           "get_city_suggestions", "get_filter_options"}
           => /\ response'.status = 200
              /\ ~request.es_ok => response' = EmptyResult(request.op)]_vars

\* A search whose page holds a company that fits and one that does not.
C13_Witness ==
    /\ pc = "done"
    /\ request.op = "search"
    /\ request.es_ok
    /\ response.status = 500
    /\ response.error = "ValidationError"
    /\ Len(EsSearch(companies, query_body).hits) = 2
    /\ SchemaOk(EsSearch(companies, query_body).hits[1]._source)

----------------------------------------------------------------------------
(* Properties of the stored documents (Spec) *)

\* C14: every document of the companies index carries the size_category
\* that categorize_company_size gives for its current_employee_estimate.
C14_SizeCategoryDerivedFromCount ==
    \A id \in DOMAIN companies :
        companies[id].size_category =
            Some(categorize_company_size(
                     companies[id].current_employee_estimate))

----------------------------------------------------------------------------
(* Tag requests handled side by side by several server processes (SpecTags) *)

\* The app object served by more than one process (uvicorn workers, or
\* replicas behind a balancer) against the one engine: the two engine calls
\* of a tag handler, es_client.get and es_client.index, are then separate
\* steps, and the calls of other processes fall between them.
MaxWorkers == 2
Workers == 1..MaxWorkers

\* The identifiers tag requests name: "a1" is stored, "1" is not.
TagTargets == {"a1", "1"}

Idle ==
    [pc |-> "idle", op |-> "none", company_id |-> "", tag_name |-> "",
     company_data |-> None, response |-> None]

\* A company created through POST /companies at time 0.
TaggedCompany(tags) == CompanyData(CompanyBody(None, tags), 0)

\* The tag lists without a duplicate the company starts with.
StartingTags == {<<>>, <<"vip">>, <<"vip", "new">>}

InitTags ==
    /\ \E tags \in StartingTags :
          companies = EsIndex(EmptyIndex, "a1", TaggedCompany(tags))
    /\ clock = 1
    /\ pc = "done"
    /\ request = [op |-> "startup", es_ok |-> TRUE]
    /\ query_body = None
    /\ response = None
    /\ repeats = 0
    /\ tags_index = EmptyIndex
    /\ inflight = [w \in Workers |-> Idle]
    /\ startup = StartupDone

\* A process takes a tag request.
TagReceive(w) ==
    /\ inflight[w].pc \in {"idle", "done"}
    /\ clock < MaxClock
    /\ \E op \in {"add_tag", "remove_tag"}, id \in TagTargets, t \in TagNames :
          inflight' = [inflight EXCEPT ![w] =
                          [Idle EXCEPT !.pc = "received", !.op = op,
                                       !.company_id = id, !.tag_name = t]]
    /\ UNCHANGED <<companies, clock, pc, request, query_body, response,
                   repeats, tags_index, startup>>

\* The update a tag handler makes to the document it has read.
TagUpdate(op, source, tag_name, now) ==
    IF op = "add_tag" THEN AddTagUpdate(source, tag_name, now)
    ELSE RemoveTagUpdate(source, tag_name, now)

TagMessage(op) ==
    IF op = "add_tag" THEN "Tag added successfully"
    ELSE "Tag removed successfully"

\* es_client.get and the if: a missing document is answered 500, a
\* document that needs no change is answered as read, and else the handler
\* goes on to write.
TagRead(w) ==
    /\ inflight[w].pc = "received"
    /\ LET r == inflight[w]
       IN  inflight' = [inflight EXCEPT ![w] =
             IF r.company_id \notin DOMAIN companies
             THEN [r EXCEPT !.pc = "done",
                            !.response =
                                [status |-> 500,
                                 detail |-> IF r.op = "add_tag"
                                            THEN "Failed to add tag"
                                            ELSE "Failed to remove tag"]]
             ELSE LET source == companies[r.company_id]
                  IN  IF TagUpdate(r.op, source, r.tag_name, clock).writes
                      THEN [r EXCEPT !.pc = "write", !.company_data = source]
                      ELSE [r EXCEPT !.pc = "done",
                                     !.company_data = source,
                                     !.response =
                                         [status |-> 200,
                                          message |-> TagMessage(r.op),
                                          tags |-> source.tags]]]
    /\ UNCHANGED <<companies, clock, pc, request, query_body, response,
                   repeats, tags_index, startup>>

TagWriteIndex_KeepsNewer(index, id, source_read, company_data) ==
    IF index[id] = source_read THEN EsIndex(index, id, company_data)
    ELSE index

\* es_client.index(index="companies", id=company_id, body=company_data): no
\* if_seq_no / if_primary_term is passed, so the document read is not
\* compared with the one stored.
TagWriteIndex(index, id, source_read, company_data) ==
    EsIndex(index, id, company_data)

\* The body of the if and the return: the changed document is written over
\* whatever is stored by now.
TagWrite(w) ==
    /\ inflight[w].pc = "write"
    /\ LET r == inflight[w]
           update == TagUpdate(r.op, r.company_data, r.tag_name, clock)
       IN  /\ companies' = TagWriteIndex(companies, r.company_id,
                                         r.company_data, update.company_data)
           /\ inflight' = [inflight EXCEPT ![w] =
                             [r EXCEPT !.pc = "done",
                                       !.company_data = update.company_data,
                                       !.response =
                                           [status |-> 200,
                                            message |-> TagMessage(r.op),
                                            tags |-> update.company_data.tags]]]
    /\ clock' = clock + 1
    /\ UNCHANGED <<pc, request, query_body, response, repeats, tags_index,
                   startup>>

NextTags == \E w \in Workers : TagReceive(w) \/ TagRead(w) \/ TagWrite(w)

SpecTags == InitTags /\ [][NextTags]_vars

\* C15: a tag request on a stored company is answered 200 however the other
\* requests fall between its read and its write, and its write stores the
\* list it made from the document it had read, the list it answers with,
\* whatever was stored in the meantime.
C15_LastWriteWins ==
    [][\A w \in Workers :
          /\ (inflight[w].pc = "received" /\ inflight'[w].pc # "received"
              /\ inflight[w].company_id \in DOMAIN companies)
             => inflight'[w].pc = "write" \/ inflight'[w].response.status = 200
          /\ (inflight[w].pc = "write" /\ inflight'[w].pc = "done")
             => LET r == inflight[w]
                    read == r.company_data.tags
                IN  /\ inflight'[w].response.status = 200
                    /\ companies'[r.company_id].tags =
                          inflight'[w].response.tags
                    /\ companies'[r.company_id].tags =
                          IF r.op = "add_tag" THEN read \o <<r.tag_name>>
                          ELSE Without(read, r.tag_name)]_vars

\* The lost update: two additions to the same company written one right
\* after the other, both answered 200, and the tag of the first is not in
\* the stored list.
C15_Witness ==
    \E w1, w2 \in Workers :
        /\ w1 # w2
        /\ inflight[w1].pc = "done" /\ inflight[w2].pc = "done"
        /\ inflight[w1].op = "add_tag" /\ inflight[w2].op = "add_tag"
        /\ inflight[w1].company_id = "a1" /\ inflight[w2].company_id = "a1"
        /\ inflight[w1].response.status = 200
        /\ inflight[w2].response.status = 200
        /\ In(inflight[w1].tag_name, inflight[w1].response.tags)
        /\ inflight[w1].company_data.updated_at + 1 =
              inflight[w2].company_data.updated_at
        /\ companies["a1"] = inflight[w2].company_data
        /\ ~In(inflight[w1].tag_name, companies["a1"].tags)

\* C17: however the reads and writes of add_tag_to_company and
\* remove_tag_from_company requests fall, a company that started without a
\* duplicate tag never stores a tag twice, and nothing of it but tags and
\* updated_at ever differs from what was created.
C17_NoDuplicateTagsFieldsKept ==
    /\ DOMAIN companies = {"a1"}
    /\ \A t \in TagNames : Count(t, companies["a1"].tags) <= 1
    /\ [companies["a1"] EXCEPT !.tags = <<>>, !.updated_at = 0] =
          TaggedCompany(<<>>)

\* An addition and a removal both between their read and their write, after
\* an earlier write.
C17_Witness ==
    \E w1, w2 \in Workers :
        /\ inflight[w1].pc = "write" /\ inflight[w1].op = "add_tag"
        /\ inflight[w2].pc = "write" /\ inflight[w2].op = "remove_tag"
        /\ companies["a1"].updated_at > 0
        /\ inflight[w1].company_data # companies["a1"]

----------------------------------------------------------------------------
(* The startup hook run once (SpecStartup) *)

InitStartup ==
    /\ companies = EmptyIndex
    /\ clock = 0
    /\ pc = "done"
    /\ request = [op |-> "startup", es_ok |-> TRUE]
    /\ query_body = None
    /\ response = None
    /\ repeats = 0
    /\ tags_index = EmptyIndex
    /\ inflight = NoWorkers
    /\ \E index_exists \in BOOLEAN : startup = StartupBegin(index_exists)

NextStartup ==
    \/ StartupPing
    \/ StartupLoopExit
    \/ StartupGiveUp
    \/ StartupCreateIndex

\* The hook is a coroutine the server runs to its end: every ping answers,
\* raises or times out, and time.sleep(2) returns, so a step that can be
\* taken is taken.
SpecStartup == InitStartup /\ [][NextStartup]_vars /\ WF_vars(NextStartup)

\* C16: create_index pings at most max_retries times and pings no more once
\* a ping has answered True; it checks for the companies index (and creates
\* it when missing) only after such a ping; when every one of the
\* max_retries pings answered False or raised, it has warned and returned
\* without checking or creating the index; and it always returns.
C16_StartupWaitTerminates ==
    /\ [](/\ startup.pings <= max_retries
          /\ startup.pc = "ping" => startup.last_ping # "true"
          /\ startup.checked => startup.last_ping = "true"
          /\ startup.created => startup.checked
          /\ (startup.pc = "done" /\ startup.last_ping = "true")
             => startup.checked /\ ~startup.warned
          /\ (startup.pc = "done" /\ startup.last_ping # "true")
             => /\ startup.pings = max_retries
                /\ ~startup.checked
                /\ ~startup.created
                /\ startup.warned)
    /\ <>(startup.pc = "done")

\* Thirty pings, the last of which raised: the hook has returned degraded.
C16_Witness ==
    /\ startup.pc = "done"
    /\ startup.pings = max_retries
    /\ startup.last_ping = "raises"
    /\ startup.warned
    /\ ~startup.checked
    /\ ~startup.index_exists
====
